---- MODULE Spec2Model ----
(***************************************************************************)
(* Model of the kokoro-tts Django backend: tts_app/utils.py                *)
(* (split_sentences, generate_speech) and tts_app/views.py                 *)
(* (initialize_kokoro_pipeline, generate_audio_for_sentence with its       *)
(* @retry decorator, generate, cleanup_audio).                             *)
(*                                                                         *)
(* Texts are sequences of one-character strings.  Durations are kept as    *)
(* integer sample counts at the fixed 24000 Hz rate, so that               *)
(* audio.shape[0] / 24000 and f.frames / f.samplerate are compared         *)
(* exactly.                                                                *)
(*                                                                         *)
(* Three specifications: Spec, the first request to generate() in full     *)
(* (any posted lists of texts and voices), handled alone; SpecConc,        *)
(* several requests handled by contexts that overlap, on the shared        *)
(* globals kokoro_pipeline and voice_cache; SpecSplit, split_sentences     *)
(* applied to every short text.                                            *)
(***************************************************************************)
EXTENDS Integers, Sequences, FiniteSets, TLC

\* ------------------------------------------------------------------------
\* Bounds of the model
\* ------------------------------------------------------------------------
MaxLen == 4         \* longest text handed to split_sentences on its own
MaxTexts == 2       \* longest text[] / voice[] list of one POST
MaxRequests == 2    \* requests received over one run of the process
NumContexts == 2    \* request-handling contexts that may overlap

\* ------------------------------------------------------------------------
\* Characters and str.strip()
\* ------------------------------------------------------------------------
\* \s, \w and [.!?] of the pattern, and one character outside all of them.
Whitespace == {" ", "\n"}
WordChars == {"a"}
Punct == {"."}
Chars == Whitespace \cup WordChars \cup Punct \cup {","}

BSeq(S, n) == UNION {[1..k -> S] : k \in 0..n}

RECURSIVE lstrip(_)
lstrip(s) ==
    IF s # <<>> /\ Head(s) \in Whitespace THEN lstrip(Tail(s)) ELSE s

RECURSIVE rstrip(_)
rstrip(s) ==
    IF s # <<>> /\ s[Len(s)] \in Whitespace
    THEN rstrip(SubSeq(s, 1, Len(s) - 1))
    ELSE s

\* Python's str.strip(): leading and trailing whitespace removed.
strip(s) == rstrip(lstrip(s))

\* ------------------------------------------------------------------------
\* utils.split_sentences
\* ------------------------------------------------------------------------
\* Length of the longest run of characters of S that starts at text[p].
RECURSIVE RunLen(_, _, _)
RunLen(text, p, S) ==
    IF p <= Len(text) /\ text[p] \in S THEN 1 + RunLen(text, p + 1, S) ELSE 0

\* Length of the match of
\*   (?<=[.!?])\s+|(?<=\w)\s{2,}|\n+
\* at position p of text (0: no match there).  The alternatives are tried
\* in order and each quantifier is greedy.
MatchLen(text, p) ==
    LET ws == RunLen(text, p, Whitespace)
        nl == RunLen(text, p, {"\n"})
    IN  IF p > 1 /\ text[p - 1] \in Punct /\ ws >= 1 THEN ws
        ELSE IF p > 1 /\ text[p - 1] \in WordChars /\ ws >= 2 THEN ws
        ELSE nl

\* re.split(pattern, text): the pieces between the non-overlapping matches
\* found scanning left to right; start is where the current piece began.
RECURSIVE re_split(_, _, _)
re_split(text, start, p) ==
    IF p > Len(text) THEN << SubSeq(text, start, Len(text)) >>
    ELSE LET m == MatchLen(text, p)
         IN  IF m > 0
             THEN << SubSeq(text, start, p - 1) >> \o re_split(text, p + m, p + m)
             ELSE re_split(text, start, p + 1)

\* [s.strip() for s in pieces if s.strip()]
RECURSIVE StripNonEmpty(_)
StripNonEmpty(pieces) ==
    IF pieces = <<>> THEN <<>>
    ELSE LET s == strip(Head(pieces))
         IN  (IF s # <<>> THEN << s >> ELSE <<>>) \o StripNonEmpty(Tail(pieces))

\* Mutant: the fallback returns the text as it came, untrimmed.
split_sentences_untrimmed(text) ==
    LET sentences == StripNonEmpty(re_split(text, 1, 1))
    IN  IF sentences # <<>> THEN sentences ELSE << text >>

split_sentences(text) ==
    LET sentences == StripNonEmpty(re_split(text, 1, 1))
    IN  IF sentences # <<>> THEN sentences ELSE << strip(text) >>

\* ------------------------------------------------------------------------
\* utils.generate_speech
\* ------------------------------------------------------------------------
\* kokoro_pipeline = None
None == 0

\* What one call pipeline(sentence, voice=voice) can do: the generator yields
\* the audio tensors of segs (each given by its sample count, audio.shape[0])
\* and then either ends or raises.
Yields == {<<>>, <<2>>, <<1, 2>>}
PipelineOutcome == [segs : Yields, raised : BOOLEAN]

RECURSIVE Sum(_)
Sum(seq) == IF seq = <<>> THEN 0 ELSE Head(seq) + Sum(Tail(seq))

\* Mutant: the end of a timing is the chunk's own duration, the offset
\* being left out.
RECURSIVE AddSegments_nooffset(_, _)
AddSegments_nooffset(acc, segs) ==
    IF segs = <<>> THEN acc
    ELSE LET audio == Head(segs)
             chunk_duration == audio
         IN  AddSegments_nooffset(
                 [audio_segments |-> Append(acc.audio_segments, audio),
                  chunk_timings |-> Append(acc.chunk_timings,
                      [start |-> acc.current_time, end |-> chunk_duration]),
                  current_time |-> acc.current_time + chunk_duration],
                 Tail(segs))

\* for _, _, audio in generator: (lines 51-60), acc holding the locals
\* audio_segments, chunk_timings and current_time.
RECURSIVE AddSegments(_, _)
AddSegments(acc, segs) ==
    IF segs = <<>> THEN acc
    ELSE LET audio == Head(segs)
             chunk_duration == audio
         IN  AddSegments(
                 [audio_segments |-> Append(acc.audio_segments, audio),
                  chunk_timings |-> Append(acc.chunk_timings,
                      [start |-> acc.current_time,
                       end |-> acc.current_time + chunk_duration]),
                  current_time |-> acc.current_time + chunk_duration],
                 Tail(segs))

\* Mutant: what a pipeline call yielded before it raised is dropped.
RECURSIVE SentenceLoop_rollback(_, _, _, _)
SentenceLoop_rollback(sentences, outs, k, acc) ==
    IF k > Len(sentences) THEN acc
    ELSE IF strip(sentences[k]) = <<>> \/ outs[k].raised
         THEN SentenceLoop_rollback(sentences, outs, k + 1, acc)
         ELSE SentenceLoop_rollback(sentences, outs, k + 1,
                                    AddSegments(acc, outs[k].segs))

\* for i, sentence in enumerate(sentences): (lines 45-63).  An exception of
\* the pipeline call is caught and the loop goes on; what the generator had
\* yielded before it raised is already appended.
RECURSIVE SentenceLoop(_, _, _, _)
SentenceLoop(sentences, outs, k, acc) ==
    IF k > Len(sentences) THEN acc
    ELSE IF strip(sentences[k]) = <<>>
         THEN SentenceLoop(sentences, outs, k + 1, acc)
         ELSE SentenceLoop(sentences, outs, k + 1, AddSegments(acc, outs[k].segs))

\* The outcomes of the pipeline calls of one run of generate_speech: calling
\* a handle that is None raises at once (TypeError) for every sentence.
EffectiveOutcomes(pipeline, outs) ==
    IF pipeline = None
    THEN [k \in DOMAIN outs |-> [segs |-> <<>>, raised |-> TRUE]]
    ELSE outs

WriteFile(fs, path, frames) ==
    [p \in DOMAIN fs \cup {path} |-> IF p = path THEN frames ELSE fs[p]]

Failure(error, fs) ==
    [status |-> error, audio_segments |-> <<>>, chunk_timings |-> <<>>,
     duration |-> 0, files |-> fs]

\* Mutant: the espeak-ng data path is not looked for.
generate_speech_nocheck(text, voice, output_path, pipeline, fs, env) ==
    IF ~env.local /\ ~env.dl THEN Failure("HubError", fs)
    ELSE
        LET sentences == split_sentences(text)
            acc == SentenceLoop(sentences, EffectiveOutcomes(pipeline, env.outs), 1,
                       [audio_segments |-> <<>>, chunk_timings |-> <<>>,
                        current_time |-> 0])
            written == WriteFile(fs, output_path, Sum(acc.audio_segments))
        IN  IF acc.audio_segments = <<>> THEN Failure("NoAudio", fs)
            ELSE [status |-> "ok",
                  audio_segments |-> acc.audio_segments,
                  chunk_timings |-> acc.chunk_timings,
                  duration |-> written[output_path],
                  files |-> written]

\* Mutant: the file is written before the segments are looked at.
generate_speech_writefirst(text, voice, output_path, pipeline, fs, env) ==
    IF ~env.espeak THEN Failure("FileNotFoundError", fs)
    ELSE IF ~env.local /\ ~env.dl THEN Failure("HubError", fs)
    ELSE
        LET sentences == split_sentences(text)
            acc == SentenceLoop(sentences, EffectiveOutcomes(pipeline, env.outs), 1,
                       [audio_segments |-> <<>>, chunk_timings |-> <<>>,
                        current_time |-> 0])
            written == WriteFile(fs, output_path, Sum(acc.audio_segments))
        IN  IF acc.audio_segments = <<>> THEN Failure("NoAudio", written)
            ELSE [status |-> "ok",
                  audio_segments |-> acc.audio_segments,
                  chunk_timings |-> acc.chunk_timings,
                  duration |-> written[output_path],
                  files |-> written]

\* generate_speech(text, voice, output_path, pipeline) run on the disk fs.
\* env is what the call meets outside the program: espeak (the espeak-ng
\* data path exists), local (the voice file exists locally), dl (the voice
\* download succeeds) and outs (one PipelineOutcome per sentence).  Writing
\* the file and reading it back (soundfile) are taken to succeed.
generate_speech(text, voice, output_path, pipeline, fs, env) ==
    IF ~env.espeak THEN Failure("FileNotFoundError", fs)
    ELSE IF ~env.local /\ ~env.dl THEN Failure("HubError", fs)
    ELSE
        LET sentences == split_sentences(text)
            acc == SentenceLoop(sentences, EffectiveOutcomes(pipeline, env.outs), 1,
                       [audio_segments |-> <<>>, chunk_timings |-> <<>>,
                        current_time |-> 0])
        IN  IF acc.audio_segments = <<>> THEN Failure("NoAudio", fs)
            ELSE LET written == WriteFile(fs, output_path, Sum(acc.audio_segments))
                 IN  [status |-> "ok",
                      audio_segments |-> acc.audio_segments,
                      chunk_timings |-> acc.chunk_timings,
                      duration |-> written[output_path],
                      files |-> written]

\* ------------------------------------------------------------------------
\* State
\* ------------------------------------------------------------------------
DefaultVoice == "af_heart"
Voices == {"af_heart", "am_adam"}

\* @retry(tries=3, delay=1, backoff=2)
Tries == 3
Delay == 1
Backoff == 2

Contexts == 1..NumContexts

\* An element of the list texts: a string, or the None that
\* request.POST.get("text") returns when the field is absent.
NoneText == [none |-> TRUE, s |-> <<>>]
Str(t) == [none |-> FALSE, s |-> t]

VARIABLES
    espeakOk,        \* host: the espeak-ng data path exists
    voiceLocal,      \* host: voices whose <voice>.pt exists under VOICE_DIR
                     \* (the default voice; any other is downloaded)
    kokoro_pipeline, \* views.kokoro_pipeline: None or the handle constructed
    voice_cache,     \* views.voice_cache: the voices resolved so far
    files,           \* the .wav files of static/audio: path -> frames
    constructed,     \* number of KPipeline objects constructed so far
    usedHandles,     \* the pipeline values handed to generate_speech so far
    served,          \* requests to generate() received so far
    pc,              \* where each request-handling context stands
    post,            \* the request the context is handling
    reqId,           \* its number, standing for time.time() in the file name
    texts, voices,   \* locals of generate()
    i, results,      \* loop index (1-based) and results of generate()
    tries, delay,    \* _tries and _delay of the retry loop
    waits,           \* the sleeps of the retry loop for the current pair
    ret,             \* who called initialize_kokoro_pipeline
    gen,             \* the last call of generate_speech for the current pair
    allNoAudio,      \* every try so far for the current pair got no segment
    resp,            \* the response, once the handler has returned
    splitIn, splitOut, splitDone

hostVars == <<espeakOk, voiceLocal>>
globalVars == <<kokoro_pipeline, voice_cache, files, constructed, usedHandles, served>>
localVars == <<pc, post, reqId, texts, voices, i, results, tries, delay, waits,
               ret, gen, allNoAudio, resp>>
splitVars == <<splitIn, splitOut, splitDone>>
vars == <<hostVars, globalVars, localVars, splitVars>>

NoFiles == [p \in {} |-> 0]
NoPost == [method |-> "none", textList |-> <<>>, textField |-> <<>>,
           voiceList |-> <<>>, voiceField |-> <<>>]
NoGen == [status |-> "none", calls |-> 0, completed |-> 0, yielded |-> 0,
          wrote |-> FALSE]
NoResp == [status |-> 0, error |-> "", audio_urls |-> <<>>]

InitLocals ==
    /\ pc = [r \in Contexts |-> "idle"]
    /\ post = [r \in Contexts |-> NoPost]
    /\ reqId = [r \in Contexts |-> 0]
    /\ texts = [r \in Contexts |-> <<>>]
    /\ voices = [r \in Contexts |-> <<>>]
    /\ i = [r \in Contexts |-> 0]
    /\ results = [r \in Contexts |-> <<>>]
    /\ tries = [r \in Contexts |-> 0]
    /\ delay = [r \in Contexts |-> 0]
    /\ waits = [r \in Contexts |-> <<>>]
    /\ ret = [r \in Contexts |-> "none"]
    /\ gen = [r \in Contexts |-> NoGen]
    /\ allNoAudio = [r \in Contexts |-> FALSE]
    /\ resp = [r \in Contexts |-> NoResp]

InitGlobals ==
    /\ kokoro_pipeline = None
    /\ voice_cache = {}
    /\ files = NoFiles
    /\ constructed = 0
    /\ usedHandles = {}
    /\ served = 0

Init ==
    /\ espeakOk \in BOOLEAN
    /\ voiceLocal = {DefaultVoice}
    /\ InitGlobals
    /\ InitLocals
    /\ splitIn = <<>> /\ splitOut = <<>> /\ splitDone = FALSE

\* ------------------------------------------------------------------------
\* views.generate: parsing (lines 90-106)
\* ------------------------------------------------------------------------
\* The texts a request posts: a blank one and one of two sentences.
ReqTexts == { <<" ">>, <<"a", ".", " ", "a", " ">> }

\* The form posts of the model.  The field text (voice) is read only when
\* text[] (voice[]) is absent, so it is left out when the list is there.
Posts ==
    { [method |-> "POST", textList |-> tl, textField |-> tf,
       voiceList |-> vl, voiceField |-> vf] :
        tl \in BSeq(ReqTexts, MaxTexts), tf \in BSeq(ReqTexts, 1),
        vl \in BSeq(Voices, MaxTexts), vf \in BSeq(Voices, 1) }
GetRequest == [NoPost EXCEPT !.method = "GET"]
AllRequests ==
    { p \in Posts : /\ (p.textList # <<>> => p.textField = <<>>)
                    /\ (p.voiceList # <<>> => p.voiceField = <<>>) }
    \cup {GetRequest}

\* request.POST.getlist("text[]") or [request.POST.get("text")]
texts_of(p) ==
    IF p.textList # <<>>
    THEN [k \in DOMAIN p.textList |-> Str(p.textList[k])]
    ELSE << IF p.textField = <<>> THEN NoneText ELSE Str(p.textField[1]) >>

\* request.POST.getlist("voice[]") or [request.POST.get("voice", "af_heart")]
voices_of(p) ==
    IF p.voiceList # <<>>
    THEN p.voiceList
    ELSE << IF p.voiceField = <<>> THEN DefaultVoice ELSE p.voiceField[1] >>

\* any(text.strip() for text in texts): "true", "false", or "raise" when
\* .strip() is called on None before a non-blank text is found.
RECURSIVE any_strip(_)
any_strip(ts) ==
    IF ts = <<>> THEN "false"
    ELSE IF Head(ts).none THEN "raise"
    ELSE IF strip(Head(ts).s) # <<>> THEN "true"
    ELSE any_strip(Tail(ts))

\* Mutant: the list is padded with the default voice, not with its last.
pad_voices_default(vs, n) ==
    IF Len(vs) # n
    THEN vs \o [k \in 1..(n - Len(vs)) |-> DefaultVoice]
    ELSE vs

\* lines 104-105; a list times a negative number is the empty list.
pad_voices(vs, n) ==
    IF Len(vs) # n
    THEN vs \o [k \in 1..(n - Len(vs)) |-> IF vs # <<>> THEN vs[Len(vs)] ELSE DefaultVoice]
    ELSE vs

Upd(f, r, v) == [f EXCEPT ![r] = v]

\* return JsonResponse(...): the handler of context r ends.
Respond(r, status, error, urls) ==
    /\ pc' = Upd(pc, r, "done")
    /\ resp' = Upd(resp, r, [status |-> status, error |-> error, audio_urls |-> urls])

\* generate(request), lines 88-106, for a request p taken from P.
Generate(r, P) ==
    /\ pc[r] = "idle"
    /\ served < MaxRequests
    /\ \E p \in P :
        /\ post' = Upd(post, r, p)
        /\ served' = served + 1
        /\ reqId' = Upd(reqId, r, served + 1)
        /\ IF p.method # "POST"
           THEN /\ Respond(r, 400, "Invalid request method", <<>>)
                /\ UNCHANGED <<texts, voices, i>>
           ELSE LET t == texts_of(p)
                    v == voices_of(p)
                IN  IF t = <<>>
                    THEN /\ Respond(r, 400, "No text provided", <<>>)
                         /\ UNCHANGED <<texts, voices, i>>
                    ELSE IF any_strip(t) = "raise"
                    THEN /\ Respond(r, 500, "AttributeError", <<>>)
                         /\ UNCHANGED <<texts, voices, i>>
                    ELSE IF any_strip(t) = "false"
                    THEN /\ Respond(r, 400, "No text provided", <<>>)
                         /\ UNCHANGED <<texts, voices, i>>
                    ELSE /\ texts' = Upd(texts, r, t)
                         /\ voices' = Upd(voices, r, pad_voices(v, Len(t)))
                         /\ i' = Upd(i, r, 1)
                         /\ pc' = Upd(pc, r, "check_pipeline")
                         /\ UNCHANGED resp
    /\ UNCHANGED <<hostVars, kokoro_pipeline, voice_cache, files, constructed,
                   usedHandles, results, tries, delay, waits, ret, gen, allNoAudio,
                   splitVars>>

\* ------------------------------------------------------------------------
\* views.initialize_kokoro_pipeline and its two callers
\* ------------------------------------------------------------------------
\* An exception inside generate_audio_for_sentence reaches the retry loop:
\* _tries -= 1; if not _tries: raise (and generate() answers 500);
\* otherwise the loop sleeps.
RetryRaise(r, error) ==
    /\ tries' = Upd(tries, r, tries[r] - 1)
    /\ allNoAudio' = Upd(allNoAudio, r, allNoAudio[r] /\ error = "NoAudio")
    /\ IF tries[r] - 1 = 0
       THEN Respond(r, 500, error, <<>>)
       ELSE /\ pc' = Upd(pc, r, "backoff")
            /\ UNCHANGED resp

\* generate(), lines 109-110: if kokoro_pipeline is None: initialize...
CheckPipeline(r) ==
    /\ pc[r] = "check_pipeline"
    /\ IF kokoro_pipeline = None
       THEN /\ pc' = Upd(pc, r, "init_enter")
            /\ ret' = Upd(ret, r, "generate")
       ELSE /\ pc' = Upd(pc, r, "loop")
            /\ UNCHANGED ret
    /\ UNCHANGED <<hostVars, globalVars, post, reqId, texts, voices, i, results,
                   tries, delay, waits, gen, allNoAudio, resp, splitVars>>

ReturnTo(r) == IF ret[r] = "generate" THEN "loop" ELSE "synth"

\* initialize_kokoro_pipeline(), lines 29-32: the cached-handle test.
InitEnter(r) ==
    /\ pc[r] = "init_enter"
    /\ IF kokoro_pipeline # None
       THEN pc' = Upd(pc, r, ReturnTo(r))
       ELSE pc' = Upd(pc, r, "init_build")
    /\ UNCHANGED <<hostVars, globalVars, post, reqId, texts, voices, i, results,
                   tries, delay, waits, ret, gen, allNoAudio, resp, splitVars>>

\* initialize_kokoro_pipeline(), lines 34-55: the model download and the
\* KPipeline constructor either succeed, and the new handle is stored, or
\* raise, and the handler stores None and raises again.
InitBuild(r) ==
    /\ pc[r] = "init_build"
    /\ \E ok \in BOOLEAN :
        IF ok
        THEN /\ kokoro_pipeline' = constructed + 1
             /\ constructed' = constructed + 1
             /\ pc' = Upd(pc, r, ReturnTo(r))
             /\ UNCHANGED <<tries, allNoAudio, resp>>
        ELSE /\ kokoro_pipeline' = None
             /\ UNCHANGED constructed
             /\ IF ret[r] = "generate"
                THEN Respond(r, 500, "InitError", <<>>) /\ UNCHANGED <<tries, allNoAudio>>
                ELSE RetryRaise(r, "InitError")
    /\ UNCHANGED <<hostVars, voice_cache, files, usedHandles, served, post, reqId,
                   texts, voices, i, results, delay, waits, ret, gen, splitVars>>

\* ------------------------------------------------------------------------
\* views.generate: the loop over the pairs (lines 112-126)
\* ------------------------------------------------------------------------
Min(a, b) == IF a <= b THEN a ELSE b

\* One turn of for i, (text, voice) in enumerate(zip(texts, voices)), up to
\* the call of generate_audio_for_sentence, or the response after the loop.
Loop(r) ==
    /\ pc[r] = "loop"
    /\ IF i[r] > Min(Len(texts[r]), Len(voices[r]))
       THEN /\ Respond(r, 200, "", results[r])
            /\ UNCHANGED <<i, tries, delay, waits, gen, allNoAudio>>
       ELSE IF strip(texts[r][i[r]].s) = <<>>
       THEN /\ i' = Upd(i, r, i[r] + 1)
            /\ UNCHANGED <<pc, resp, tries, delay, waits, gen, allNoAudio>>
       ELSE /\ pc' = Upd(pc, r, "attempt")
            /\ tries' = Upd(tries, r, Tries)
            /\ delay' = Upd(delay, r, Delay)
            /\ waits' = Upd(waits, r, <<>>)
            /\ gen' = Upd(gen, r, NoGen)
            /\ allNoAudio' = Upd(allNoAudio, r, TRUE)
            /\ UNCHANGED <<i, resp>>
    /\ UNCHANGED <<hostVars, globalVars, post, reqId, texts, voices, results, ret,
                   splitVars>>

\* ------------------------------------------------------------------------
\* views.generate_audio_for_sentence under @retry
\* ------------------------------------------------------------------------
\* Lines 60-63, the start of one try: if not kokoro_pipeline: initialize...
Attempt(r) ==
    /\ pc[r] = "attempt"
    /\ IF kokoro_pipeline = None
       THEN /\ pc' = Upd(pc, r, "init_enter")
            /\ ret' = Upd(ret, r, "attempt")
       ELSE /\ pc' = Upd(pc, r, "synth")
            /\ UNCHANGED ret
    /\ UNCHANGED <<hostVars, globalVars, post, reqId, texts, voices, i, results,
                   tries, delay, waits, gen, allNoAudio, resp, splitVars>>

\* os.path.join(output_dir, f"{voice}_{hash(text + str(time.time()))}.wav"):
\* the hash of the text and the time is taken to differ from pair to pair.
OutputPath(r) == [voice |-> voices[r][i[r]], id |-> <<reqId[r], i[r]>>]

\* What the pipeline calls of one generate_speech did, for the record gen.
Completed(outs) == Cardinality({k \in DOMAIN outs : ~outs[k].raised})
RECURSIVE Yielded(_)
Yielded(outs) ==
    IF outs = <<>> THEN 0 ELSE Len(Head(outs).segs) + Yielded(Tail(outs))

\* The record of one call of generate_speech: how it ended, whether it
\* changed the disk, how many pipeline calls it made, how many of them
\* ended without raising and how many segments they yielded in all.
GenRecord(g, pipeline, outs, fs) ==
    LET eff == EffectiveOutcomes(pipeline, outs)
        reached == g.status \in {"ok", "NoAudio"}
    IN  [status |-> g.status,
         calls |-> IF reached THEN Len(outs) ELSE 0,
         completed |-> IF reached THEN Completed(eff) ELSE 0,
         yielded |-> IF reached THEN Yielded(eff) ELSE 0,
         wrote |-> g.files # fs]

\* generate_speech as line 75 calls it, env.outs being the outcomes outs.
CallGenerateSpeech(r, outs, dl) ==
    generate_speech(strip(texts[r][i[r]].s), voices[r][i[r]], OutputPath(r),
                    kokoro_pipeline, files,
                    [espeak |-> espeakOk, local |-> voices[r][i[r]] \in voiceLocal,
                     dl |-> dl, outs |-> outs])

\* The try returned: generate() appends its result (line 123).
SynthReturns(r, g, outs) ==
    /\ voice_cache' = voice_cache \cup {voices[r][i[r]]}
    /\ usedHandles' = usedHandles \cup {kokoro_pipeline}
    /\ files' = g.files
    /\ gen' = Upd(gen, r, GenRecord(g, kokoro_pipeline, outs, files))
    /\ results' = Upd(results, r, Append(results[r],
           [audio_url |-> OutputPath(r), duration |-> g.duration,
            chunk_timings |-> g.chunk_timings, voice |-> voices[r][i[r]]]))
    /\ i' = Upd(i, r, i[r] + 1)
    /\ pc' = Upd(pc, r, "loop")
    /\ UNCHANGED <<tries, allNoAudio, resp>>

\* generate_speech raised: the exception reaches the retry loop.
SynthRaises(r, g, outs) ==
    /\ voice_cache' = voice_cache \cup {voices[r][i[r]]}
    /\ usedHandles' = usedHandles \cup {kokoro_pipeline}
    /\ files' = g.files
    /\ gen' = Upd(gen, r, GenRecord(g, kokoro_pipeline, outs, files))
    /\ RetryRaise(r, g.status)
    /\ UNCHANGED <<i, results>>

NoOutcomes(r) ==
    [k \in 1..Len(split_sentences(strip(texts[r][i[r]].s))) |->
        [segs |-> <<>>, raised |-> TRUE]]

\* Lines 65-81, the rest of one try: the voice is resolved, generate_speech
\* runs, and the try returns or raises.  The outcomes of the environment
\* are chosen where the code meets them:
\*   - the download of line 70 fails (the voice is neither cached nor local);
\*   - generate_speech raises before its loop: the espeak-ng path is absent,
\*     or the download of utils.py line 37 fails (the voice is not local);
\*   - generate_speech reaches its loop, with any outcomes of the pipeline.
Synth(r) ==
    /\ pc[r] = "synth"
    /\ LET voice == voices[r][i[r]]
           mustResolve == voice \notin voice_cache /\ voice \notin voiceLocal
       IN  \/ /\ mustResolve
              /\ RetryRaise(r, "HubError")
              /\ gen' = Upd(gen, r, [NoGen EXCEPT !.status = "HubError"])
              /\ UNCHANGED <<voice_cache, files, usedHandles, i, results>>
           \/ /\ ~espeakOk \/ voice \notin voiceLocal
              /\ LET g == CallGenerateSpeech(r, NoOutcomes(r), FALSE)
                 IN  SynthRaises(r, g, NoOutcomes(r))
           \/ /\ espeakOk
              /\ \E outs \in [1..Len(split_sentences(strip(texts[r][i[r]].s)))
                                -> PipelineOutcome] :
                    LET g == CallGenerateSpeech(r, outs, TRUE)
                    IN  IF g.status = "ok"
                        THEN SynthReturns(r, g, outs)
                        ELSE SynthRaises(r, g, outs)
    /\ UNCHANGED <<hostVars, kokoro_pipeline, constructed, served, post, reqId,
                   texts, voices, delay, waits, ret, splitVars>>

\* Mutant: the delay is not multiplied by the backoff.
BackoffSleep_constant(r) ==
    /\ pc[r] = "backoff"
    /\ waits' = Upd(waits, r, Append(waits[r], delay[r]))
    /\ pc' = Upd(pc, r, "attempt")
    /\ UNCHANGED <<hostVars, globalVars, post, reqId, texts, voices, i, results,
                   tries, delay, ret, gen, allNoAudio, resp, splitVars>>

\* The retry loop between two tries: time.sleep(_delay); _delay *= backoff.
BackoffSleep(r) ==
    /\ pc[r] = "backoff"
    /\ waits' = Upd(waits, r, Append(waits[r], delay[r]))
    /\ delay' = Upd(delay, r, delay[r] * Backoff)
    /\ pc' = Upd(pc, r, "attempt")
    /\ UNCHANGED <<hostVars, globalVars, post, reqId, texts, voices, i, results,
                   tries, ret, gen, allNoAudio, resp, splitVars>>

\* ------------------------------------------------------------------------
\* views.cleanup_audio and the end of a request
\* ------------------------------------------------------------------------
\* cleanup_audio(request): every .wav file of static/audio is removed.
cleanup_audio(r) ==
    /\ pc[r] = "idle"
    /\ files' = NoFiles
    /\ pc' = Upd(pc, r, "cleaned")
    /\ resp' = Upd(resp, r, [status |-> 200, error |-> "", audio_urls |-> <<>>])
    /\ UNCHANGED <<hostVars, kokoro_pipeline, voice_cache, constructed, usedHandles,
                   served, post, reqId, texts, voices, i, results, tries, delay,
                   waits, ret, gen, allNoAudio, splitVars>>

\* The response is sent; the context and its locals are gone.
Finish(r) ==
    /\ pc[r] \in {"done", "cleaned"}
    /\ pc' = Upd(pc, r, "idle")
    /\ post' = Upd(post, r, NoPost)
    /\ reqId' = Upd(reqId, r, 0)
    /\ texts' = Upd(texts, r, <<>>)
    /\ voices' = Upd(voices, r, <<>>)
    /\ i' = Upd(i, r, 0)
    /\ results' = Upd(results, r, <<>>)
    /\ tries' = Upd(tries, r, 0)
    /\ delay' = Upd(delay, r, 0)
    /\ waits' = Upd(waits, r, <<>>)
    /\ ret' = Upd(ret, r, "none")
    /\ gen' = Upd(gen, r, NoGen)
    /\ allNoAudio' = Upd(allNoAudio, r, FALSE)
    /\ resp' = Upd(resp, r, NoResp)
    /\ UNCHANGED <<hostVars, globalVars, splitVars>>

\* ------------------------------------------------------------------------
\* Specifications
\* ------------------------------------------------------------------------
\* The first request to generate() that the process receives, whatever it
\* posts, handled alone; cleanup requests come before or after it.
FirstRequest == served = 0 /\ Generate(1, AllRequests)

Next ==
    \/ FirstRequest
    \/ CheckPipeline(1)
    \/ InitEnter(1)
    \/ InitBuild(1)
    \/ Loop(1)
    \/ Attempt(1)
    \/ Synth(1)
    \/ BackoffSleep(1)
    \/ cleanup_audio(1)
    \/ Finish(1)

Spec == Init /\ [][Next]_vars

\* Requests handled by contexts that overlap, the globals of views.py being
\* shared without a lock.  Each request posts the one text "a" and no voice.
ConcRequests ==
    { [method |-> "POST", textList |-> << <<"a">> >>, textField |-> <<>>,
       voiceList |-> <<>>, voiceField |-> <<>>] }

NextConc ==
    \E r \in Contexts :
        \/ Generate(r, ConcRequests)
        \/ CheckPipeline(r)
        \/ InitEnter(r)
        \/ InitBuild(r)
        \/ Loop(r)
        \/ Attempt(r)
        \/ Synth(r)
        \/ BackoffSleep(r)
        \/ cleanup_audio(r)
        \/ Finish(r)

SpecConc == Init /\ [][NextConc]_vars

\* split_sentences on its own, applied to every text of up to MaxLen
\* characters.
InitSplit ==
    /\ splitIn \in BSeq(Chars, MaxLen)
    /\ splitOut = <<>>
    /\ splitDone = FALSE
    /\ espeakOk = TRUE
    /\ voiceLocal = {}
    /\ InitGlobals
    /\ InitLocals

SplitSentences ==
    /\ ~splitDone
    /\ splitOut' = split_sentences(splitIn)
    /\ splitDone' = TRUE
    /\ UNCHANGED <<splitIn, hostVars, globalVars, localVars>>

NextSplit == SplitSentences

SpecSplit == InitSplit /\ [][NextSplit]_vars

\* ------------------------------------------------------------------------
\* Properties
\* ------------------------------------------------------------------------
Last(seq) == seq[Len(seq)]

\* The texts a request supplies: text[], or else the field text if any.
SuppliedTexts(p) == IF p.textList # <<>> THEN p.textList ELSE p.textField
\* The voices a request supplies: voice[], or else the field voice if any.
SuppliedVoices(p) == IF p.voiceList # <<>> THEN p.voiceList ELSE p.voiceField

NoTextSupplied(p) ==
    \A k \in DOMAIN SuppliedTexts(p) : strip(SuppliedTexts(p)[k]) = <<>>

FilesOf(r) == {p \in DOMAIN files : p.id[1] = reqId[r]}

\* C1: a POST to generate() that supplies no text at all, or only blank
\* texts, is answered with status 400, without any synthesis call and
\* without any audio file written.
C1_NoTextIs400 ==
    \A r \in Contexts :
        (pc[r] = "done" /\ post[r].method = "POST" /\ NoTextSupplied(post[r]))
            => /\ resp[r].status = 400
               /\ gen[r] = NoGen
               /\ FilesOf(r) = {}

\* C2, as claimed: split_sentences returns at least one sentence and every
\* sentence it returns is non-empty after trimming.
C2_AllSentencesNonEmpty ==
    splitDone =>
        /\ Len(splitOut) >= 1
        /\ \A k \in DOMAIN splitOut : strip(splitOut[k]) # <<>>

\* C2, as amended: split_sentences returns at least one sentence; for a
\* text that is not blank every sentence is trimmed and non-empty; for a
\* blank text (empty or whitespace only) the result is the one empty string.
C2_NonEmptyUnlessBlank ==
    splitDone =>
        /\ Len(splitOut) >= 1
        /\ strip(splitIn) # <<>> =>
              \A k \in DOMAIN splitOut :
                  splitOut[k] # <<>> /\ strip(splitOut[k]) = splitOut[k]
        /\ strip(splitIn) = <<>> => splitOut = << <<>> >>

C2_Witness == splitDone /\ splitIn # <<>> /\ strip(splitIn) = <<>>

\* C3, as claimed: when generate_speech returns, chunk_timings has one
\* entry per sentence whose pipeline call ended without raising.
C3_OneTimingPerSentence ==
    \A r \in Contexts :
        gen[r].status = "ok" =>
            Len(Last(results[r]).chunk_timings) = gen[r].completed

\* C3, as amended: when generate_speech returns, chunk_timings has one
\* entry per audio segment that the pipeline yielded, over all sentences,
\* those yielded by a call that raised afterwards included; a pipeline call
\* that yields nothing adds no entry.
C3_OneTimingPerSegment ==
    \A r \in Contexts :
        gen[r].status = "ok" =>
            /\ Len(Last(results[r]).chunk_timings) = gen[r].yielded
            /\ gen[r].yielded >= 1

C3_Witness ==
    /\ gen[1].status = "ok"
    /\ gen[1].calls = 2
    /\ gen[1].completed = 1
    /\ gen[1].yielded = 3

RECURSIVE SumOfDurations(_)
SumOfDurations(ct) ==
    IF ct = <<>> THEN 0
    ELSE (Head(ct).end - Head(ct).start) + SumOfDurations(Tail(ct))

\* C4: when generate_speech returns, on the first try or on a later one,
\* the chunk timings tile the written audio: the first starts at 0, each
\* ends where the next starts, none ends before it starts, and the last end,
\* like the sum of the durations, is the duration of the written file.
C4_TimingsTileTheFile ==
    \A r \in Contexts :
        gen[r].status = "ok" =>
            LET res == Last(results[r])
                ct == res.chunk_timings
            IN  /\ ct # <<>>
                /\ ct[1].start = 0
                /\ \A k \in 1..(Len(ct) - 1) : ct[k].end = ct[k + 1].start
                /\ \A k \in DOMAIN ct : ct[k].start <= ct[k].end
                /\ ct[Len(ct)].end = res.duration
                /\ SumOfDurations(ct) = res.duration
                /\ res.audio_url \in DOMAIN files
                /\ files[res.audio_url] = res.duration

C4_Witness ==
    /\ gen[1].status = "ok"
    /\ waits[1] = <<1, 2>>
    /\ Len(results[1]) = 2
    /\ Len(Last(results[1]).chunk_timings) = 4
    /\ Last(results[1]).duration = 6

C6_ReadyIsTerminal ==
    [][ /\ kokoro_pipeline # None => kokoro_pipeline' = kokoro_pipeline
        /\ \A r \in Contexts :
              (pc[r] = "init_build" /\ pc'[r] \in {"done", "backoff"})
                  => kokoro_pipeline' = None ]_vars

\* C7, as claimed: if every pipeline call of a generate_speech run raised,
\* the run raises "no audio generated" and writes no file.
C7_AllFailedIsNoAudio ==
    \A r \in Contexts :
        (gen[r].calls >= 1 /\ gen[r].completed = 0)
            => (gen[r].status = "NoAudio" /\ ~gen[r].wrote)

\* C7, as amended: a generate_speech run raises "no audio generated"
\* exactly when its pipeline calls yielded no segment at all, and then it
\* writes no file; if every try for a pair ends so, no file exists for the
\* pair when the request has been answered with the error.
C7_NoSegmentNoFile ==
    \A r \in Contexts :
        /\ gen[r].calls >= 1 => (gen[r].yielded = 0 <=> gen[r].status = "NoAudio")
        /\ gen[r].status = "NoAudio" =>
              (~gen[r].wrote /\ (allNoAudio[r] => OutputPath(r) \notin DOMAIN files))
        /\ (pc[r] = "done" /\ resp[r].status = 500 /\ allNoAudio[r]) =>
              /\ resp[r].error = "NoAudio"
              /\ OutputPath(r) \notin DOMAIN files

C7_Witness ==
    /\ pc[1] = "done"
    /\ resp[1].status = 500
    /\ allNoAudio[1]
    /\ gen[1].calls = 2
    /\ gen[1].completed = 1
    /\ i[1] = 2
    /\ files # NoFiles

Raised(r) == Tries - tries[r]
InTry(r) == pc[r] \in {"attempt", "synth"}
               \/ (pc[r] \in {"init_enter", "init_build"} /\ ret[r] = "attempt")
\* generate() answered 500 because the tries of a pair were used up.
GaveUp(r) == /\ pc[r] = "done"
             /\ resp[r].status = 500
             /\ (gen[r].status # "none" \/ ret[r] = "attempt")

\* C9: a pair is tried at most 3 times; a try starts only after the one
\* before raised and the loop slept, 1 then 2 time units; a try that
\* returns ends the retries and its result is the one collected; when the
\* third try raises the request is answered 500 with no result and no
\* later pair has been processed.
C9_RetryPolicy ==
    \A r \in Contexts :
        /\ InTry(r) =>
              /\ Raised(r) \in 0..(Tries - 1)
              /\ waits[r] = SubSeq(<<1, 2>>, 1, Raised(r))
              /\ Raised(r) >= 1 => gen[r].status \notin {"ok"}
        /\ pc[r] = "backoff" =>
              /\ Raised(r) \in 1..(Tries - 1)
              /\ waits[r] = SubSeq(<<1, 2>>, 1, Raised(r) - 1)
              /\ gen[r].status # "ok"
        /\ gen[r].status = "ok" =>
              /\ pc[r] \in {"loop", "done"}
              /\ results[r] # <<>>
              /\ Last(results[r]).audio_url \in DOMAIN files
              /\ Last(results[r]).duration = files[Last(results[r]).audio_url]
              /\ pc[r] = "done" => (resp[r].status = 200 /\ resp[r].audio_urls = results[r])
        /\ GaveUp(r) =>
              /\ Raised(r) = Tries
              /\ waits[r] = <<1, 2>>
              /\ gen[r].status # "ok"
              /\ resp[r].audio_urls = <<>>
              /\ \A p \in FilesOf(r) : p.id[2] < i[r]

C9_Witness ==
    /\ GaveUp(1)
    /\ Len(texts[1]) = 2
    /\ i[1] = 1
    /\ strip(texts[1][2].s) # <<>>
    /\ gen[1].status = "NoAudio"

\* C10: the pipeline object is constructed at most once in the life of the
\* process and every call of generate_speech gets that one handle.
C10_ConstructedOnce ==
    /\ constructed <= 1
    /\ usedHandles \subseteq {1}
====
